---- MODULE Spec2Model ----
(***************************************************************************)
(* A model of OpenLibraryClient (src/src/client/OpenLibraryClient.ts).     *)
(*                                                                         *)
(* Text that the client inspects or rewrites (keys, ISBNs, query strings,  *)
(* request paths) is a sequence of one-character strings, so that          *)
(* String.replace, startsWith, the regular expressions and URLSearchParams *)
(* are modelled by what they do to the characters.  Text the client only   *)
(* passes along (messages, base URLs, header values) is an atomic string.  *)
(* An optional value (a property that may be missing, `undefined`) is a    *)
(* sequence of length 0 or 1.                                              *)
(***************************************************************************)
EXTENDS Integers, Sequences, FiniteSets, TLC

VARIABLES
    heap,          \* the headers objects: object id -> header name -> optional value
    callerConfig,  \* the object the caller passed to the constructor
    config,        \* this.config
    httpClient,    \* the defaults this.httpClient was created with
    returned,      \* the object the last getConfig() call returned, if any
    baseURLSeen,   \* the value the last getBaseURL() call returned, if any
    calls,         \* the calls of the I/O operations the caller holds
    requests,      \* the httpClient.get calls made for them
    coverUrl       \* the last cover URL call and the URL it returned, if any

vars ==
    <<heap, callerConfig, config, httpClient, returned, baseURLSeen, calls, requests, coverUrl>>

configVars == <<heap, callerConfig, config, httpClient, returned, baseURLSeen>>

ioVars == <<calls, requests>>

coverVars == <<coverUrl>>

----------------------------------------------------------------------------
(* Optional values and text helpers *)

None == <<>>

Some(v) == <<v>>

IsSome(o) == Len(o) = 1

Val(o) == o[1]

RECURSIVE Flatten(_)
Flatten(ss) == IF ss = <<>> THEN <<>> ELSE Head(ss) \o Flatten(Tail(ss))

\* String.prototype.startsWith(p)
StartsWith(s, p) == Len(s) >= Len(p) /\ SubSeq(s, 1, Len(p)) = p

\* the positions at which pat occurs in s
Occurrences(s, pat) ==
    { i \in 1..(Len(s) - Len(pat) + 1) : SubSeq(s, i, i + Len(pat) - 1) = pat }

Contains(s, pat) == Occurrences(s, pat) # {}

Min(S) == CHOOSE x \in S : \A y \in S : x <= y

\* String.prototype.replace(pat, rep) with a string pattern: the first
\* occurrence only, wherever it is
ReplaceFirst(s, pat, rep) ==
    IF ~Contains(s, pat) THEN s
    ELSE LET i == Min(Occurrences(s, pat))
         IN  SubSeq(s, 1, i - 1) \o rep \o SubSeq(s, i + Len(pat), Len(s))

\* String.prototype.replace(/^\//, ''): one leading "/" is removed
StripLeadingSlash(s) == IF s # <<>> /\ Head(s) = "/" THEN Tail(s) ELSE s

Digits == {"0", "1", "2", "3", "4", "5", "6", "7", "8", "9"}

\* the characters of the model that the class \s matches
Whitespace == {" ", "\t"}

IsbnSeparators == {"-"} \cup Whitespace

IsSeparator(c) == c \in IsbnSeparators

\* String.prototype.replace(/[-\s]/g, ''): every hyphen and whitespace removed
RemoveSeparators(s) == SelectSeq(s, LAMBDA c : ~IsSeparator(c))

AllDigits(s) == \A i \in 1..Len(s) : s[i] \in Digits

Isbn10Length == 10

Isbn13Length == 13

\* /^\d{n}$/.test(s)
IsDigitsOfLength(s, n) == Len(s) = n /\ AllDigits(s)

----------------------------------------------------------------------------
(* Endpoint paths *)

WorksPrefix == <<"/", "w", "o", "r", "k", "s", "/">>

BooksPrefix == <<"/", "b", "o", "o", "k", "s", "/">>

IsbnPrefix == <<"/", "i", "s", "b", "n", "/">>

JsonSuffix == <<".", "j", "s", "o", "n">>

KeyMarker == <<"O", "L">>

WorkPath(cleanKey) == WorksPrefix \o cleanKey \o JsonSuffix

EditionPath(cleanKey) == BooksPrefix \o cleanKey \o JsonSuffix

IsbnPath(cleanISBN) == IsbnPrefix \o cleanISBN \o JsonSuffix

----------------------------------------------------------------------------
(* Key and ISBN normalisation and validation *)

\* a variant that forgets the prefix and strips the leading "/" only
CleanWorkKey_SlashOnly(workKey) == StripLeadingSlash(workKey)

\* workKey.replace('/works/', '').replace(/^\//, '')
CleanWorkKey(workKey) == StripLeadingSlash(ReplaceFirst(workKey, WorksPrefix, <<>>))

\* editionKey.replace('/books/', '').replace(/^\//, '')
CleanEditionKey(editionKey) == StripLeadingSlash(ReplaceFirst(editionKey, BooksPrefix, <<>>))

\* a variant that accepts the marker anywhere in the key: includes('OL')
IsValidKey_Includes(cleanKey) == Contains(cleanKey, KeyMarker)

\* cleanKey.startsWith('OL')
IsValidKey(cleanKey) == StartsWith(cleanKey, KeyMarker)

\* a variant that removes hyphens only: /-/g
CleanISBN_HyphensOnly(isbn) == SelectSeq(isbn, LAMBDA c : c # "-")

\* isbn.replace(/[-\s]/g, '')
CleanISBN(isbn) == RemoveSeparators(isbn)

\* a variant that accepts every length from 10 to 13: /^\d{10,13}$/
IsValidISBN_Between(cleanISBN) ==
    /\ Len(cleanISBN) >= Isbn10Length
    /\ Len(cleanISBN) <= Isbn13Length
    /\ AllDigits(cleanISBN)

\* /^\d{10}$/.test(cleanISBN) || /^\d{13}$/.test(cleanISBN)
IsValidISBN(cleanISBN) ==
    \/ IsDigitsOfLength(cleanISBN, Isbn10Length)
    \/ IsDigitsOfLength(cleanISBN, Isbn13Length)

----------------------------------------------------------------------------
(* Values thrown and returned *)

\* new Error(message): an Error object has a message and neither an
\* `error` nor a `status` property
NewError(message) == [error |-> None, message |-> Some(message), status |-> None]

WorkKeyMessage == "Work key must start with \"OL\" (e.g., \"OL45804W\")"

EditionKeyMessage == "Edition key must start with \"OL\" (e.g., \"OL7353617M\")"

IsbnMessage == "ISBN must be 10 or 13 digits"

\* variant: a ?? b, which keeps an empty string
OrElse_Nullish(o, d) == IF IsSome(o) THEN o ELSE d

\* a || b on optional strings: the empty string and undefined are falsy
OrElse(o, d) == IF IsSome(o) /\ Val(o) # "" THEN o ELSE d

\* error.response.data?.error and error.response.data?.message
DataError(response) == IF IsSome(response.data) THEN Val(response.data).error ELSE None

DataMessage(response) == IF IsSome(response.data) THEN Val(response.data).message ELSE None

\* variant: error.request is tested before error.response
handleError_RequestFirst(error) ==
    IF error.request
    THEN [error   |-> Some("Network Error"),
          message |-> Some("No response received from server"),
          status  |-> None]
    ELSE IF IsSome(error.response)
    THEN [error   |-> OrElse(DataError(Val(error.response)), Some("API Error")),
          message |-> OrElse(DataMessage(Val(error.response)), error.message),
          status  |-> Some(Val(error.response).status)]
    ELSE [error   |-> Some("Request Error"),
          message |-> error.message,
          status  |-> None]

\* variant: no branch for a request that was sent and got no response
handleError_NoRequestBranch(error) ==
    IF IsSome(error.response)
    THEN [error   |-> OrElse(DataError(Val(error.response)), Some("API Error")),
          message |-> OrElse(DataMessage(Val(error.response)), error.message),
          status  |-> Some(Val(error.response).status)]
    ELSE [error   |-> Some("Request Error"),
          message |-> error.message,
          status  |-> None]

\* a variant that reads the status off the error object, where there is none:
\* status: error.status
handleError_StatusOfError(error) ==
    IF IsSome(error.response)
    THEN [error   |-> OrElse(DataError(Val(error.response)), Some("API Error")),
          message |-> OrElse(DataMessage(Val(error.response)), error.message),
          status  |-> None]
    ELSE IF error.request
    THEN [error   |-> Some("Network Error"),
          message |-> Some("No response received from server"),
          status  |-> None]
    ELSE [error   |-> Some("Request Error"),
          message |-> error.message,
          status  |-> None]

\* handleError(error): error is what the transport rejected with
handleError(error) ==
    IF IsSome(error.response)
    THEN [error   |-> OrElse(DataError(Val(error.response)), Some("API Error")),
          message |-> OrElse(DataMessage(Val(error.response)), error.message),
          status  |-> Some(Val(error.response).status)]
    ELSE IF error.request
    THEN [error   |-> Some("Network Error"),
          message |-> Some("No response received from server"),
          status  |-> None]
    ELSE [error   |-> Some("Request Error"),
          message |-> error.message,
          status  |-> None]

\* variant: the status text is written out, not taken from the response
ApiResponse_FixedStatusText(response) ==
    [data |-> response.data, status |-> response.status, statusText |-> "OK"]

\* { data: response.data, status: response.status, statusText: response.statusText }
ApiResponse(response) ==
    [data |-> response.data, status |-> response.status, statusText |-> response.statusText]

----------------------------------------------------------------------------
(* Construction *)

DefaultBaseURL == "https://openlibrary.org"

DefaultTimeout == 10000

HeaderNames == {"Content-Type", "User-Agent", "X-Api-Key"}

NoHeaders == [h \in HeaderNames |-> None]

\* 'Content-Type': 'application/json', 'User-Agent': 'open-library-client/1.0.0'
DefaultHeaders ==
    [h \in HeaderNames |->
        CASE h = "Content-Type" -> Some("application/json")
          [] h = "User-Agent"   -> Some("open-library-client/1.0.0")
          [] OTHER              -> None]

\* variant: { ...own, ...defaults }, the defaults spread last
Spread_DefaultsLast(defaults, own) ==
    [h \in HeaderNames |-> IF IsSome(defaults[h]) THEN defaults[h] ELSE own[h]]

\* { ...defaults, ...own }: a property of own replaces the default of that name
Spread(defaults, own) ==
    [h \in HeaderNames |-> IF IsSome(own[h]) THEN own[h] ELSE defaults[h]]

\* the headers objects: the one the caller passed, and the {} the constructor
\* makes when the caller passed none
CallerHeaders == "callerHeaders"

FreshHeaders == "freshHeaders"

ObjIds == {CallerHeaders, FreshHeaders}

\* config.baseURL || 'https://openlibrary.org': the empty string is falsy
BaseURLOrDefault(o) == IF IsSome(o) /\ Val(o) # "" THEN Val(o) ELSE DefaultBaseURL

\* config.timeout || 10000: 0 is falsy
TimeoutOrDefault(o) == IF IsSome(o) /\ Val(o) # 0 THEN Val(o) ELSE DefaultTimeout

\* config.headers || {}: the caller's object itself when there is one
HeadersOrFresh(o) == IF IsSome(o) THEN Val(o) ELSE FreshHeaders

\* this.config = { baseURL: ..., timeout: ..., headers: ... }
MakeConfig(c) ==
    [baseURL |-> BaseURLOrDefault(c.baseURL),
     timeout |-> TimeoutOrDefault(c.timeout),
     headers |-> HeadersOrFresh(c.headers)]

\* axios.create({ baseURL, timeout, headers: { ...defaults, ...this.config.headers } })
MakeHttpClient(cfg, h) ==
    [baseURL |-> cfg.baseURL,
     timeout |-> cfg.timeout,
     headers |-> Spread(DefaultHeaders, h[cfg.headers])]

\* the configurations callers construct clients from
BaseURLInputs == {None, Some(""), Some("https://mirror.example")}

TimeoutInputs == {None, Some(0), Some(15000)}

HeadersInputs ==
    {None,
     Some(NoHeaders),
     Some([NoHeaders EXCEPT !["User-Agent"] = Some("TypeScript-Example/1.0.0")]),
     Some([NoHeaders EXCEPT !["X-Api-Key"] = Some("secret")])}

ConfigInputs == [baseURL : BaseURLInputs, timeout : TimeoutInputs, headers : HeadersInputs]

\* new OpenLibraryClient(c), c.headers being the caller's own object
Constructed(c) ==
    /\ callerConfig =
          [baseURL |-> c.baseURL,
           timeout |-> c.timeout,
           headers |-> IF IsSome(c.headers) THEN Some(CallerHeaders) ELSE None]
    /\ heap =
          [o \in ObjIds |->
              IF o = CallerHeaders /\ IsSome(c.headers) THEN Val(c.headers) ELSE NoHeaders]
    /\ config = MakeConfig(callerConfig)
    /\ httpClient = MakeHttpClient(config, heap)
    /\ returned = None
    /\ baseURLSeen = None
    /\ calls = <<>>
    /\ requests = <<>>
    /\ coverUrl = None

Init == \E c \in ConfigInputs : Constructed(c)

\* new OpenLibraryClient() and the client of the examples
ExampleConfigs ==
    {[baseURL |-> None, timeout |-> None, headers |-> None],
     [baseURL |-> None,
      timeout |-> Some(15000),
      headers |-> Some([NoHeaders EXCEPT !["User-Agent"] = Some("TypeScript-Example/1.0.0")])]}

InitExample == \E c \in ExampleConfigs : Constructed(c)

----------------------------------------------------------------------------
(* The caller's side of a call: each I/O operation either throws before any *)
(* request or calls this.httpClient.get(url) once and awaits it.           *)

Throws(e) == [thrown |-> Some(e), url |-> None]

Gets(url) == [thrown |-> None, url |-> Some(url)]

\* the caller awaits each call before making the next one
Idle == calls = <<>>

AllSettled == \A i \in DOMAIN calls : calls[i].state # "pending"

\* the call the caller now holds: rejected at once when the operation threw,
\* pending on its request otherwise
Started(op, arg, step) ==
    <<[op     |-> op,
       arg    |-> arg,
       state  |-> IF IsSome(step.thrown) THEN "rejected" ELSE "pending",
       result |-> None,
       thrown |-> step.thrown]>>

\* variant: the GET is issued a second time
Sent_Twice(step) ==
    IF IsSome(step.url)
    THEN <<[call |-> 1, method |-> "GET", url |-> Val(step.url)],
           [call |-> 1, method |-> "GET", url |-> Val(step.url)]>>
    ELSE <<>>

\* the httpClient.get calls of that call
Sent(step) ==
    IF IsSome(step.url)
    THEN <<[call |-> 1, method |-> "GET", url |-> Val(step.url)]>>
    ELSE <<>>

\* the body of getWork up to the await
getWorkStep(workKey) ==
    LET cleanKey == CleanWorkKey(workKey)
    IN  IF ~IsValidKey(cleanKey)
        THEN Throws(NewError(WorkKeyMessage))
        ELSE Gets(WorkPath(cleanKey))

\* the body of getEdition up to the await
getEditionStep(editionKey) ==
    LET cleanKey == CleanEditionKey(editionKey)
    IN  IF ~IsValidKey(cleanKey)
        THEN Throws(NewError(EditionKeyMessage))
        ELSE Gets(EditionPath(cleanKey))

\* variant: getBookByISBN without its format check
getBookByISBNStep_Unchecked(isbn) == Gets(IsbnPath(CleanISBN(isbn)))

\* the body of getBookByISBN up to the await
getBookByISBNStep(isbn) ==
    LET cleanISBN == CleanISBN(isbn)
    IN  IF ~IsValidISBN(cleanISBN)
        THEN Throws(NewError(IsbnMessage))
        ELSE Gets(IsbnPath(cleanISBN))

----------------------------------------------------------------------------
(* The transport and the response interceptor *)

Statuses == {200, 201, 304, 404, 500}

StatusText(status) ==
    CASE status = 200 -> "OK"
      [] status = 201 -> "Created"
      [] status = 304 -> "Not Modified"
      [] status = 404 -> "Not Found"
      [] OTHER        -> "Internal Server Error"

\* the JSON bodies the upstream answers with, as far as the client reads them
Bodies ==
    {None} \cup
    { Some([error |-> e, message |-> m]) :
        e \in {None, Some(""), Some("notfound")},
        m \in {None, Some(""), Some("upstream message")} }

Responses ==
    { [status |-> s, statusText |-> StatusText(s), data |-> d] : s \in Statuses, d \in Bodies }

\* what can happen to one httpClient.get: a response arrives, the request is
\* sent and no response arrives, or the request cannot be sent
TransportOutcomes ==
    { [kind |-> "response", response |-> Some(r)] : r \in Responses }
    \cup {[kind |-> "noResponse", response |-> None], [kind |-> "notSent", response |-> None]}

\* the transport's default validateStatus
ValidateStatus(status) == status >= 200 /\ status < 300

\* the error object the transport rejects with
TransportError(o) ==
    CASE o.kind = "response" ->
            [message  |-> Some("Request failed with status code"),
             response |-> o.response,
             request  |-> TRUE]
      [] o.kind = "noResponse" ->
            [message |-> Some("timeout exceeded"), response |-> None, request |-> TRUE]
      [] OTHER ->
            [message |-> Some("Invalid URL"), response |-> None, request |-> FALSE]

TransportFulfils(o) == o.kind = "response" /\ ValidateStatus(Val(o.response).status)

\* the response interceptor's second handler: Promise.reject(this.handleError(error))
ResponseRejected(error) == handleError(error)

\* the rest of an operation once its httpClient.get settles with outcome o:
\* return the wrapped response, or rethrow what the interceptor rejected with
Settled(call, o) ==
    IF TransportFulfils(o)
    THEN [call EXCEPT !.state = "fulfilled", !.result = Some(ApiResponse(Val(o.response)))]
    ELSE [call EXCEPT !.state = "rejected",
                      !.thrown = Some(ResponseRejected(TransportError(o)))]

\* variant: the last response is kept on the client, so that every call that
\* is waiting takes it
Respond_Shared(i, o) ==
    /\ i \in DOMAIN calls
    /\ calls[i].state = "pending"
    /\ calls' = [j \in DOMAIN calls |->
                    IF calls[j].state = "pending" THEN Settled(calls[j], o) ELSE calls[j]]
    /\ UNCHANGED <<requests, configVars, coverVars>>

Respond(i, o) ==
    /\ i \in DOMAIN calls
    /\ calls[i].state = "pending"
    /\ calls' = [calls EXCEPT ![i] = Settled(calls[i], o)]
    /\ UNCHANGED <<requests, configVars, coverVars>>

\* the await returns or throws: the caller has the outcome and goes on
Return ==
    /\ calls # <<>>
    /\ AllSettled
    /\ calls' = <<>>
    /\ requests' = <<>>
    /\ UNCHANGED <<configVars, coverVars>>

----------------------------------------------------------------------------
(* The keys and ISBNs callers pass *)

SampleWorkId == <<"O", "L", "4", "5", "8", "0", "4", "W">>

IdInputs ==
    {SampleWorkId,
     <<"X", "X", "1", "2", "3">>,
     <<>>,
     <<"O">>,
     <<"o", "l", "1">>,
     <<"O", "L">>,
     <<"O", "L", "1">> \o WorksPrefix \o <<"2">>,
     <<"O", "L", "1">> \o BooksPrefix \o <<"2">>}

\* an id as callers write it: bare, behind the path prefix, behind the prefix
\* without its leading slash, behind one or two slashes, behind the prefix twice
KeyForms(id, prefix) ==
    {id,
     prefix \o id,
     Tail(prefix) \o id,
     <<"/">> \o id,
     <<"/", "/">> \o id,
     prefix \o prefix \o id,
     prefix \o <<"/">> \o id}

KeyInputs == UNION { KeyForms(id, prefix) : id \in IdInputs, prefix \in {WorksPrefix, BooksPrefix} }

SampleIsbn == <<"9", "7", "8", "0", "5", "4", "7", "9", "2", "8", "2", "2", "7">>

MaxDigits == 14

\* the first n digits of the sample ISBN, repeated when n is larger
DigitString(n) == [i \in 1..n |-> SampleIsbn[((i - 1) % Len(SampleIsbn)) + 1]]

\* s with sep put after each of the positions
InsertAfter(s, positions, sep) ==
    Flatten([i \in 1..Len(s) |-> IF i \in positions THEN <<s[i]>> \o sep ELSE <<s[i]>>])

\* a digit string as callers write it
IsbnForms(s) ==
    {s,
     InsertAfter(s, {3, 4, 7, 12}, <<"-">>),
     InsertAfter(s, {1, 5}, <<" ">>),
     InsertAfter(s, {3}, <<"-", "-">>),
     <<" ">> \o s \o <<"\t">>,
     InsertAfter(s, {3}, <<".">>),
     s \o <<"X">>,
     IF s = <<>> THEN s ELSE [s EXCEPT ![Len(s)] = "X"],
     IF s = <<>> THEN s ELSE [s EXCEPT ![1] = "a"]}

IsbnInputs == UNION { IsbnForms(DigitString(n)) : n \in 0..MaxDigits }

----------------------------------------------------------------------------
(* The detail lookups *)

GetWork(workKey) ==
    /\ Idle
    /\ calls' = Started("getWork", workKey, getWorkStep(workKey))
    /\ requests' = Sent(getWorkStep(workKey))
    /\ UNCHANGED <<configVars, coverVars>>

GetEdition(editionKey) ==
    /\ Idle
    /\ calls' = Started("getEdition", editionKey, getEditionStep(editionKey))
    /\ requests' = Sent(getEditionStep(editionKey))
    /\ UNCHANGED <<configVars, coverVars>>

GetBookByISBN(isbn) ==
    /\ Idle
    /\ calls' = Started("getBookByISBN", isbn, getBookByISBNStep(isbn))
    /\ requests' = Sent(getBookByISBNStep(isbn))
    /\ UNCHANGED <<configVars, coverVars>>

NextLookup ==
    \/ \E workKey \in KeyInputs : GetWork(workKey)
    \/ \E editionKey \in KeyInputs : GetEdition(editionKey)
    \/ \E isbn \in IsbnInputs : GetBookByISBN(isbn)
    \/ \E i \in DOMAIN calls, o \in TransportOutcomes : Respond(i, o)
    \/ Return

SpecLookup == Init /\ [][NextLookup]_vars

----------------------------------------------------------------------------
(* searchBooks *)

Letters ==
    {"a", "b", "c", "d", "e", "f", "g", "h", "i", "j", "k", "l", "m",
     "n", "o", "p", "q", "r", "s", "t", "u", "v", "w", "x", "y", "z",
     "A", "B", "C", "D", "E", "F", "G", "H", "I", "J", "K", "L", "M",
     "N", "O", "P", "Q", "R", "S", "T", "U", "V", "W", "X", "Y", "Z"}

\* the characters URLSearchParams writes as they are
FormSafe == Letters \cup Digits \cup {"*", "-", ".", "_"}

\* URLSearchParams.toString() on one character: a space becomes "+", a
\* character outside the safe set its percent code
FormEncodeChar(c) ==
    CASE c \in FormSafe -> <<c>>
      [] c = " " -> <<"+">>
      [] c = "&" -> <<"%", "2", "6">>
      [] c = "=" -> <<"%", "3", "D">>
      [] c = "+" -> <<"%", "2", "B">>
      [] c = "," -> <<"%", "2", "C">>
      [] c = "%" -> <<"%", "2", "5">>
      [] c = "/" -> <<"%", "2", "F">>
      [] c = ":" -> <<"%", "3", "A">>

FormEncode(text) == Flatten([k \in 1..Len(text) |-> FormEncodeChar(text[k])])

RECURSIVE JoinWith(_, _)
JoinWith(parts, sep) ==
    IF parts = <<>> THEN <<>>
    ELSE IF Len(parts) = 1 THEN Head(parts)
    ELSE Head(parts) \o sep \o JoinWith(Tail(parts), sep)

\* URLSearchParams.toString(): name=value pairs joined by "&"
ToQueryString(queryParams) ==
    JoinWith([k \in 1..Len(queryParams) |->
                 FormEncode(queryParams[k].name) \o <<"=">> \o FormEncode(queryParams[k].value)],
             <<"&">>)

DecimalDigits == <<"0", "1", "2", "3", "4", "5", "6", "7", "8", "9">>

\* String(n) for an integer n
RECURSIVE NumberToString(_)
NumberToString(n) ==
    IF n < 0 THEN <<"-">> \o NumberToString(0 - n)
    ELSE IF n < 10 THEN <<DecimalDigits[n + 1]>>
    ELSE NumberToString(n \div 10) \o <<DecimalDigits[(n % 10) + 1]>>

DefaultLimit == 10

DefaultOffset == 0

\* params.limit || 10: 0 is falsy
LimitOrDefault(limit) == IF IsSome(limit) /\ Val(limit) # 0 THEN Val(limit) ELSE DefaultLimit

\* params.offset || 0
OffsetOrDefault(offset) == IF IsSome(offset) /\ Val(offset) # 0 THEN Val(offset) ELSE DefaultOffset

\* the optional scalar fields, in the order searchBooks appends them
OptionalScalars == <<"title", "author", "isbn", "subject", "lang", "fields">>

ParamName(field) ==
    CASE field = "q"       -> <<"q">>
      [] field = "title"   -> <<"t", "i", "t", "l", "e">>
      [] field = "author"  -> <<"a", "u", "t", "h", "o", "r">>
      [] field = "isbn"    -> <<"i", "s", "b", "n">>
      [] field = "subject" -> <<"s", "u", "b", "j", "e", "c", "t">>
      [] field = "lang"    -> <<"l", "a", "n", "g">>
      [] field = "fields"  -> <<"f", "i", "e", "l", "d", "s">>
      [] field = "limit"   -> <<"l", "i", "m", "i", "t">>
      [] field = "offset"  -> <<"o", "f", "f", "s", "e", "t">>
      [] field = "format"  -> <<"f", "o", "r", "m", "a", "t">>

JsonValue == <<"j", "s", "o", "n">>

SearchPath == <<"/", "s", "e", "a", "r", "c", "h", ".", "j", "s", "o", "n", "?">>

Param(field, value) == [name |-> ParamName(field), value |-> value]

\* a variant that appends every field that is not undefined
Supplied_Defined(text) == IsSome(text)

\* if (params.f): a missing or empty string is falsy
Supplied(text) == IF IsSome(text) THEN Val(text) # <<>> ELSE FALSE

\* if (params.f) queryParams.append('f', params.f), for the six fields
OptionalParams(params) ==
    Flatten([k \in 1..Len(OptionalScalars) |->
                IF Supplied(params[OptionalScalars[k]])
                THEN <<Param(OptionalScalars[k], Val(params[OptionalScalars[k]]))>>
                ELSE <<>>])

\* the URLSearchParams searchBooks builds
SearchParams(params) ==
    <<Param("q", params.q)>>
    \o OptionalParams(params)
    \o <<Param("limit", NumberToString(LimitOrDefault(params.limit))),
         Param("offset", NumberToString(OffsetOrDefault(params.offset))),
         Param("format", JsonValue)>>

\* the body of searchBooks up to the await
searchBooksStep(params) == Gets(SearchPath \o ToQueryString(SearchParams(params)))

SearchBooks(params) ==
    /\ Idle
    /\ calls' = Started("searchBooks", params, searchBooksStep(params))
    /\ requests' = Sent(searchBooksStep(params))
    /\ UNCHANGED <<configVars, coverVars>>

\* the search parameters callers pass
BaseParams ==
    [q |-> <<"a">>, title |-> None, author |-> None, isbn |-> None, subject |-> None,
     lang |-> None, fields |-> None, limit |-> None, offset |-> None, sort |-> None,
     first_publish_year |-> None, publish_year |-> None]

QInputs == {<<"*">>, <<"a", " ", "b">>, <<"a", "&", "b", "=", "c">>, <<>>, <<"1", "+", "1">>}

SampleValue(field) ==
    CASE field = "title"   -> <<"x", " ", "y">>
      [] field = "author"  -> <<"T">>
      [] field = "isbn"    -> <<"9", "7", "8">>
      [] field = "subject" -> <<"s", "&", "t">>
      [] field = "lang"    -> <<"e", "n", "g">>
      [] field = "fields"  -> <<"k", "e", "y", ",", "t", "i", "t", "l", "e">>

OptionalNames == { OptionalScalars[k] : k \in 1..Len(OptionalScalars) }

MaxSupplied == 2

\* each optional field missing, empty or with a value: at most MaxSupplied of
\* them present at once, or all of them with a value
OptionalChoices ==
    { c \in [OptionalNames -> {"missing", "empty", "value"}] :
        \/ Cardinality({ f \in OptionalNames : c[f] # "missing" }) <= MaxSupplied
        \/ \A f \in OptionalNames : c[f] = "value" }

Chosen(c, field) ==
    CASE c[field] = "missing" -> None
      [] c[field] = "empty"   -> Some(<<>>)
      [] OTHER                -> Some(SampleValue(field))

WithOptionals(c) ==
    [BaseParams EXCEPT !.title = Chosen(c, "title"), !.author = Chosen(c, "author"),
                       !.isbn = Chosen(c, "isbn"), !.subject = Chosen(c, "subject"),
                       !.lang = Chosen(c, "lang"), !.fields = Chosen(c, "fields")]

LimitInputs == {None, Some(0), Some(1), Some(5), Some(100), Some(101), Some(-1)}

OffsetInputs == {None, Some(0), Some(20)}

SortInputs == {None, Some("new"), Some("relevance")}

YearInputs ==
    {None,
     Some([range |-> FALSE, start |-> 1990, end |-> 1990]),
     Some([range |-> TRUE, start |-> 1980, end |-> 1989])}

SearchInputs ==
    { [BaseParams EXCEPT !.q = q] : q \in QInputs }
    \cup { WithOptionals(c) : c \in OptionalChoices }
    \cup { [BaseParams EXCEPT !.limit = l, !.offset = o] : l \in LimitInputs, o \in OffsetInputs }
    \cup { [BaseParams EXCEPT !.sort = st, !.first_publish_year = fy, !.publish_year = py] :
             st \in SortInputs, fy \in YearInputs, py \in YearInputs }

NextSearch ==
    \/ \E params \in SearchInputs : SearchBooks(params)
    \/ \E i \in DOMAIN calls, o \in TransportOutcomes : Respond(i, o)
    \/ Return

SpecSearch == Init /\ [][NextSearch]_vars

----------------------------------------------------------------------------
(* The accessors, and what callers can do to the objects they hold *)

\* getConfig(): { ...this.config }, a new object whose headers property is
\* this.config.headers itself
getConfigResult ==
    [baseURL |-> config.baseURL, timeout |-> config.timeout, headers |-> config.headers]

GetConfig ==
    /\ returned' = Some(getConfigResult)
    /\ UNCHANGED <<heap, callerConfig, config, httpClient, baseURLSeen, ioVars, coverVars>>

\* getBaseURL(): this.config.baseURL
GetBaseURL ==
    /\ baseURLSeen' = Some(config.baseURL)
    /\ UNCHANGED <<heap, callerConfig, config, httpClient, returned, ioVars, coverVars>>

\* what callers write into a property of a headers object: a value, or
\* nothing (delete)
HeaderWrites == {None, Some("changed")}

\* C.baseURL = ..., C.timeout = ... on the object passed to the constructor
MutateCallerField ==
    /\ callerConfig' \in
          {[callerConfig EXCEPT !.baseURL = Some("https://changed.example")],
           [callerConfig EXCEPT !.timeout = Some(1)]}
    /\ UNCHANGED <<heap, config, httpClient, returned, baseURLSeen, ioVars, coverVars>>

\* C.headers[h] = v on the object passed to the constructor
MutateCallerHeaders(h, v) ==
    /\ IsSome(callerConfig.headers)
    /\ heap' = [heap EXCEPT ![Val(callerConfig.headers)][h] = v]
    /\ UNCHANGED <<callerConfig, config, httpClient, returned, baseURLSeen, ioVars, coverVars>>

\* r.baseURL = ..., r.timeout = ... on the object getConfig() returned
MutateReturnedField ==
    /\ IsSome(returned)
    /\ returned' \in
          {Some([Val(returned) EXCEPT !.baseURL = "https://changed.example"]),
           Some([Val(returned) EXCEPT !.timeout = 1])}
    /\ UNCHANGED <<heap, callerConfig, config, httpClient, baseURLSeen, ioVars, coverVars>>

\* r.headers[h] = v on the object getConfig() returned
MutateReturnedHeaders(h, v) ==
    /\ IsSome(returned)
    /\ heap' = [heap EXCEPT ![Val(returned).headers][h] = v]
    /\ UNCHANGED <<callerConfig, config, httpClient, returned, baseURLSeen, ioVars, coverVars>>

NextConfig ==
    \/ GetConfig
    \/ GetBaseURL
    \/ MutateCallerField
    \/ \E h \in HeaderNames, v \in HeaderWrites : MutateCallerHeaders(h, v)
    \/ MutateReturnedField
    \/ \E h \in HeaderNames, v \in HeaderWrites : MutateReturnedHeaders(h, v)

SpecConfig == Init /\ [][NextConfig]_vars

\* a client that is constructed and read, its objects left alone
NextAccess == GetConfig \/ GetBaseURL

SpecAccess == Init /\ [][NextAccess]_vars

----------------------------------------------------------------------------
(* The cover URLs *)

\* `https://covers.openlibrary.org/b/id/`
CoverIdBase ==
    <<"h", "t", "t", "p", "s", ":", "/", "/", "c", "o", "v", "e", "r", "s",
      ".", "o", "p", "e", "n", "l", "i", "b", "r", "a", "r", "y", ".", "o",
      "r", "g", "/", "b", "/", "i", "d", "/">>

\* `https://covers.openlibrary.org/b/isbn/`
CoverIsbnBase ==
    <<"h", "t", "t", "p", "s", ":", "/", "/", "c", "o", "v", "e", "r", "s",
      ".", "o", "p", "e", "n", "l", "i", "b", "r", "a", "r", "y", ".", "o",
      "r", "g", "/", "b", "/", "i", "s", "b", "n", "/">>

JpgSuffix == <<".", "j", "p", "g">>

Sizes == {"S", "M", "L"}

\* size: 'S' | 'M' | 'L' = 'M': the default stands in for a missing argument
DefaultSize == "M"

SizeOrDefault(size) == IF IsSome(size) THEN Val(size) ELSE DefaultSize

\* variant: a cover id below zero is taken as 0
getCoverUrl_NonNegative(coverId, size) ==
    CoverIdBase \o NumberToString(IF coverId < 0 THEN 0 ELSE coverId)
        \o <<"-", SizeOrDefault(size)>> \o JpgSuffix

\* variant: the cover is asked of the configured base address when the client
\* has one of its own
getCoverUrl_ConfiguredHost(coverId, size) ==
    (IF config.baseURL = DefaultBaseURL THEN CoverIdBase ELSE <<config.baseURL, "/", "b", "/", "i", "d", "/">>)
        \o NumberToString(coverId) \o <<"-", SizeOrDefault(size)>> \o JpgSuffix

\* `https://covers.openlibrary.org/b/id/${coverId}-${size}.jpg`
getCoverUrl(coverId, size) ==
    CoverIdBase \o NumberToString(coverId) \o <<"-", SizeOrDefault(size)>> \o JpgSuffix

\* variant: only the hyphens are removed
CleanCoverISBN_HyphensOnly(isbn) == SelectSeq(isbn, LAMBDA c : c # "-")

\* isbn.replace(/[-\s]/g, '') in getCoverUrlByISBN
CleanCoverISBN(isbn) == RemoveSeparators(isbn)

\* variant: the ISBN goes into the URL as the caller wrote it
getCoverUrlByISBN_Raw(isbn, size) ==
    CoverIsbnBase \o isbn \o <<"-", SizeOrDefault(size)>> \o JpgSuffix

\* `https://covers.openlibrary.org/b/isbn/${cleanISBN}-${size}.jpg`
getCoverUrlByISBN(isbn, size) ==
    LET cleanISBN == CleanCoverISBN(isbn)
    IN  CoverIsbnBase \o cleanISBN \o <<"-", SizeOrDefault(size)>> \o JpgSuffix

GetCoverUrl(coverId, size) ==
    /\ coverUrl' = Some([op |-> "getCoverUrl", coverId |-> coverId, size |-> size,
                         url |-> getCoverUrl(coverId, size)])
    /\ UNCHANGED <<configVars, ioVars>>

\* variant: the URL is fetched before it is returned
GetCoverUrlByISBN_Fetching(isbn, size) ==
    /\ coverUrl' = Some([op |-> "getCoverUrlByISBN", isbn |-> isbn, size |-> size,
                         url |-> getCoverUrlByISBN(isbn, size)])
    /\ requests' = Append(requests, [call |-> 0, method |-> "GET",
                                      url |-> getCoverUrlByISBN(isbn, size)])
    /\ UNCHANGED <<configVars, calls>>

GetCoverUrlByISBN(isbn, size) ==
    /\ coverUrl' = Some([op |-> "getCoverUrlByISBN", isbn |-> isbn, size |-> size,
                         url |-> getCoverUrlByISBN(isbn, size)])
    /\ UNCHANGED <<configVars, ioVars>>

\* the size argument: left out, or one of the three sizes
SizeInputs == {None} \cup { Some(z) : z \in Sizes }

SampleCoverId == 8739161

MaxCoverId == 5

\* cover ids: the small ones of either sign, and the documented one
CoverIdInputs == (-MaxCoverId..MaxCoverId) \cup {SampleCoverId, -SampleCoverId}

\* ISBNs as callers write them: of no digit, of 9, 10 and 13 digits, and of
\* the largest number of digits
CoverIsbnInputs ==
    UNION { IsbnForms(DigitString(n)) : n \in {0, 9, Isbn10Length, Isbn13Length, MaxDigits} }

NextCover ==
    \/ \E coverId \in CoverIdInputs, size \in SizeInputs : GetCoverUrl(coverId, size)
    \/ \E isbn \in CoverIsbnInputs, size \in SizeInputs : GetCoverUrlByISBN(isbn, size)

SpecCover == Init /\ [][NextCover]_vars

----------------------------------------------------------------------------
(* A caller that does not await: the I/O operations are async, so a caller  *)
(* may hold several calls at once, their responses arriving in any order,   *)
(* and may read the configuration and build cover URLs in between.          *)

MaxInFlight == 2

\* the httpClient.get calls of the call numbered i
SentAs(i, step) == [k \in DOMAIN Sent(step) |-> [Sent(step)[k] EXCEPT !.call = i]]

BeginGetWork(workKey) ==
    /\ Len(calls) < MaxInFlight
    /\ calls' = calls \o Started("getWork", workKey, getWorkStep(workKey))
    /\ requests' = requests \o SentAs(Len(calls) + 1, getWorkStep(workKey))
    /\ UNCHANGED <<configVars, coverVars>>

BeginGetEdition(editionKey) ==
    /\ Len(calls) < MaxInFlight
    /\ calls' = calls \o Started("getEdition", editionKey, getEditionStep(editionKey))
    /\ requests' = requests \o SentAs(Len(calls) + 1, getEditionStep(editionKey))
    /\ UNCHANGED <<configVars, coverVars>>

BeginGetBookByISBN(isbn) ==
    /\ Len(calls) < MaxInFlight
    /\ calls' = calls \o Started("getBookByISBN", isbn, getBookByISBNStep(isbn))
    /\ requests' = requests \o SentAs(Len(calls) + 1, getBookByISBNStep(isbn))
    /\ UNCHANGED <<configVars, coverVars>>

BeginSearchBooks(params) ==
    /\ Len(calls) < MaxInFlight
    /\ calls' = calls \o Started("searchBooks", params, searchBooksStep(params))
    /\ requests' = requests \o SentAs(Len(calls) + 1, searchBooksStep(params))
    /\ UNCHANGED <<configVars, coverVars>>

\* the arguments of the concurrent caller: a good and a bad one
SessionKeys == {SampleWorkId, <<"X", "X", "1", "2", "3">>}

SessionIsbns == {SampleIsbn, <<"1", "2", "3">>}

\* a success with a body, an HTTP error without one, and no response at all
SessionOutcomes ==
    {[kind |-> "response",
      response |-> Some([status |-> 200, statusText |-> StatusText(200),
                         data |-> Some([error |-> None, message |-> None])])],
     [kind |-> "response",
      response |-> Some([status |-> 404, statusText |-> StatusText(404), data |-> None])],
     [kind |-> "noResponse", response |-> None]}

\* the calls in flight and their responses
NextFlight ==
    \/ \E workKey \in SessionKeys : BeginGetWork(workKey)
    \/ BeginGetEdition(BooksPrefix \o SampleWorkId)
    \/ \E isbn \in SessionIsbns : BeginGetBookByISBN(isbn)
    \/ BeginSearchBooks(BaseParams)
    \/ \E i \in DOMAIN calls, o \in SessionOutcomes : Respond(i, o)
    \/ Return

\* every request has the configured timeout, which is never 0: the transport
\* settles each pending call, with a response or with an error
SpecFlight ==
    /\ InitExample
    /\ [][NextFlight]_vars
    /\ \A i \in 1..MaxInFlight : WF_vars(\E o \in SessionOutcomes : Respond(i, o))

NextSession ==
    \/ NextFlight
    \/ GetConfig
    \/ GetBaseURL
    \/ GetCoverUrl(SampleCoverId, None)
    \/ \E isbn \in SessionIsbns : GetCoverUrlByISBN(isbn, Some("L"))

SpecSession == InitExample /\ [][NextSession]_vars

----------------------------------------------------------------------------
(* The four operations on few arguments, with every outcome of the         *)
(* transport: what a call settles with does not depend on its argument.    *)

NextOutcomes ==
    \/ \E workKey \in SessionKeys : GetWork(workKey)
    \/ GetEdition(BooksPrefix \o SampleWorkId)
    \/ \E isbn \in SessionIsbns : GetBookByISBN(isbn)
    \/ SearchBooks(BaseParams)
    \/ \E i \in DOMAIN calls, o \in TransportOutcomes : Respond(i, o)
    \/ Return

SpecOutcomes == Init /\ [][NextOutcomes]_vars

----------------------------------------------------------------------------
(* A caller of any configuration that asks for a book and for its cover:    *)
(* the four operations on few arguments and the two cover URL functions,    *)
(* the ISBN operations on the same ISBNs.                                   *)

\* the sample ISBN as callers write it, and a string that is no ISBN
CallIsbns == IsbnForms(SampleIsbn) \cup SessionIsbns

NextCalls ==
    \/ \E workKey \in SessionKeys : GetWork(workKey)
    \/ GetEdition(BooksPrefix \o SampleWorkId)
    \/ \E isbn \in CallIsbns : GetBookByISBN(isbn)
    \/ SearchBooks(BaseParams)
    \/ \E i \in DOMAIN calls, o \in SessionOutcomes : Respond(i, o)
    \/ Return
    \/ \E size \in SizeInputs : GetCoverUrl(SampleCoverId, size)
    \/ \E isbn \in CallIsbns, size \in SizeInputs : GetCoverUrlByISBN(isbn, size)

SpecCalls == Init /\ [][NextCalls]_vars

----------------------------------------------------------------------------
(* The whole client.  The accessors and the caller's mutations read and    *)
(* write heap, callerConfig, returned and baseURLSeen only; the I/O         *)
(* operations read and write calls and requests only; the cover URL         *)
(* functions write coverUrl only.  The properties of each group are         *)
(* therefore checked under the specification of that group (SpecConfig,     *)
(* SpecAccess, SpecLookup, SpecSearch, SpecIO, SpecCover), whose steps are  *)
(* steps of Spec; SpecSession has steps of every group, on few inputs.      *)

\* the four operations that do I/O
NextIO == NextLookup \/ NextSearch

SpecIO == Init /\ [][NextIO]_vars

Next == NextConfig \/ NextLookup \/ NextSearch \/ NextCover \/ NextSession

Spec == Init /\ [][Next]_vars

----------------------------------------------------------------------------
(* Properties of the detail lookups *)

Issued(i, url) ==
    \E k \in DOMAIN requests : requests[k] = [call |-> i, method |-> "GET", url |-> url]

NoRequest(i) == \A k \in DOMAIN requests : requests[k].call # i

RequestsOf(i) == { k \in DOMAIN requests : requests[k].call = i }

\* the call failed before any request, with an error that has a message and
\* no HTTP status
FailedValidation(i) ==
    /\ calls[i].state = "rejected"
    /\ IsSome(calls[i].thrown)
    /\ IsSome(Val(calls[i].thrown).message)
    /\ Val(calls[i].thrown).status = None
    /\ NoRequest(i)

OLIds == { id \in IdInputs : Len(id) >= 2 /\ id[1] = "O" /\ id[2] = "L" }

WorksPrefixNoSlash == <<"w", "o", "r", "k", "s", "/">>

\* C1 as stated: for every id starting with "OL", getWork of "/works/<id>",
\* of "<id>" and of "works/<id>" each issues GET /works/<id>.json
C1_ThreeFormsOneRequest ==
    \A i \in DOMAIN calls :
        calls[i].op = "getWork" =>
            \A id \in OLIds :
                calls[i].arg \in {WorksPrefix \o id, id, WorksPrefixNoSlash \o id}
                    => Issued(i, WorksPrefix \o id \o JsonSuffix)

\* C1 as amended: for every id starting with "OL", getWork of "/works/<id>"
\* issues GET /works/<id>.json; getWork of "<id>" issues the same request
\* when <id> does not contain "/works/"; getWork of "works/<id>" (no leading
\* slash) fails validation and issues no request
C1_TwoFormsOneRequest ==
    \A i \in DOMAIN calls :
        calls[i].op = "getWork" =>
            \A id \in OLIds :
                /\ calls[i].arg = WorksPrefix \o id
                       => Issued(i, WorksPrefix \o id \o JsonSuffix)
                /\ (calls[i].arg = id /\ ~Contains(id, WorksPrefix))
                       => Issued(i, WorksPrefix \o id \o JsonSuffix)
                /\ calls[i].arg = WorksPrefixNoSlash \o id
                       => FailedValidation(i)

C1_Witness ==
    \E i \in DOMAIN calls :
        /\ calls[i].op = "getWork"
        /\ calls[i].arg = WorksPrefix \o SampleWorkId
        /\ Issued(i, WorksPrefix \o SampleWorkId \o JsonSuffix)

\* C2 as stated: whatever the cause of a failure, the value the caller
\* catches has the ApiError shape: a string `error` kind (with a message and
\* an optional status)
C2_EveryFailureIsApiError ==
    \A i \in DOMAIN calls :
        calls[i].state = "rejected" =>
            /\ IsSome(calls[i].thrown)
            /\ IsSome(Val(calls[i].thrown).error)

NormalizedKey(i) ==
    IF calls[i].op = "getWork" THEN CleanWorkKey(calls[i].arg) ELSE CleanEditionKey(calls[i].arg)

\* C3: a getWork or getEdition call whose normalized key does not start with
\* "OL" fails with an error that has a message and no HTTP status, and issues
\* no request
C3_BadKeyFailsBeforeRequest ==
    \A i \in DOMAIN calls :
        calls[i].op \in {"getWork", "getEdition"} =>
            LET key == NormalizedKey(i)
            IN  ~(Len(key) >= 2 /\ key[1] = "O" /\ key[2] = "L") => FailedValidation(i)

C3_Witness ==
    \E i \in DOMAIN calls :
        /\ calls[i].op = "getWork"
        /\ calls[i].arg = <<"X", "X", "1", "2", "3">>
        /\ calls[i].state = "rejected"

\* the input with its hyphens and whitespace removed and nothing else changed
WithoutHyphensAndSpace(isbn) == SelectSeq(isbn, LAMBDA c : c \notin {"-", " ", "\t"})

TenOrThirteenDigits(s) == Len(s) \in {10, 13} /\ \A k \in 1..Len(s) : s[k] \in Digits

\* C4: a getBookByISBN call whose input, hyphens and whitespace removed, is
\* exactly 10 or exactly 13 digits issues GET /isbn/<cleaned>.json, and that
\* request only
C4_ValidIsbnRequest ==
    \A i \in DOMAIN calls :
        calls[i].op = "getBookByISBN" =>
            LET cleaned == WithoutHyphensAndSpace(calls[i].arg)
            IN  TenOrThirteenDigits(cleaned) =>
                    /\ Issued(i, IsbnPrefix \o cleaned \o JsonSuffix)
                    /\ Cardinality(RequestsOf(i)) = 1

C4_Witness ==
    \E i \in DOMAIN calls :
        /\ calls[i].op = "getBookByISBN"
        /\ calls[i].arg = InsertAfter(SampleIsbn, {3, 4, 7, 12}, <<"-">>)
        /\ Issued(i, IsbnPrefix \o SampleIsbn \o JsonSuffix)

\* C5: a getBookByISBN call whose cleaned input is neither exactly 10 digits
\* nor exactly 13 digits fails with a validation error and issues no request
C5_BadIsbnFailsBeforeRequest ==
    \A i \in DOMAIN calls :
        calls[i].op = "getBookByISBN" =>
            (~TenOrThirteenDigits(WithoutHyphensAndSpace(calls[i].arg)) =>
                /\ FailedValidation(i)
                /\ Val(calls[i].thrown).message = Some(IsbnMessage))

C5_Witness ==
    \E i \in DOMAIN calls :
        /\ calls[i].op = "getBookByISBN"
        /\ calls[i].arg = [DigitString(10) EXCEPT ![10] = "X"]
        /\ calls[i].state = "rejected"
        /\ NoRequest(i)

\* C10: when the upstream answers a call's request with a non-success status
\* s, the call is rejected with an error whose status is s
C10_HttpStatusSurfaces ==
    [][\A i \in DOMAIN calls, o \in TransportOutcomes :
          (/\ Respond(i, o)
           /\ o.kind = "response"
           /\ ~(Val(o.response).status \in 200..299))
          => /\ calls'[i].state = "rejected"
             /\ Val(calls'[i].thrown).status = Some(Val(o.response).status)]_vars

C10_Witness ==
    \E i \in DOMAIN calls :
        /\ calls[i].state = "rejected"
        /\ IsSome(calls[i].thrown)
        /\ Val(calls[i].thrown).status = Some(404)

----------------------------------------------------------------------------
(* Properties of the configuration *)

\* what a getConfig() call made now gives the caller to read
GetConfigView ==
    [baseURL |-> getConfigResult.baseURL,
     timeout |-> getConfigResult.timeout,
     headers |-> heap[getConfigResult.headers]]

\* C6 as stated: no mutation by the caller of the object passed to the
\* constructor, its headers mapping included, changes what getConfig() returns
C6_CallerMutationUnseen ==
    [][(MutateCallerField \/ \E h \in HeaderNames, v \in HeaderWrites : MutateCallerHeaders(h, v))
          => GetConfigView' = GetConfigView]_vars

\* C7 as stated: no mutation of the object getConfig() returned, its headers
\* mapping included, changes what a later getConfig() or getBaseURL() returns
C7_ReturnedMutationUnseen ==
    [][(MutateReturnedField \/ \E h \in HeaderNames, v \in HeaderWrites : MutateReturnedHeaders(h, v))
          => (GetConfigView' = GetConfigView /\ config'.baseURL = config.baseURL)]_vars

----------------------------------------------------------------------------
(* Properties of searchBooks *)

\* the url of the request of call i
UrlOf(i) == requests[CHOOSE k \in DOMAIN requests : requests[k].call = i].url

\* a query string as the server reads it: split at "&", each part split at
\* its first "=", "+" read as a space and %XX as the character it codes
RECURSIVE SplitAt(_, _)
SplitAt(s, sep) ==
    IF \A k \in 1..Len(s) : s[k] # sep THEN <<s>>
    ELSE LET k == Min({ j \in 1..Len(s) : s[j] = sep })
         IN  <<SubSeq(s, 1, k - 1)>> \o SplitAt(SubSeq(s, k + 1, Len(s)), sep)

NameOf(part) ==
    IF \A k \in 1..Len(part) : part[k] # "=" THEN part
    ELSE SubSeq(part, 1, Min({ j \in 1..Len(part) : part[j] = "=" }) - 1)

ValueOf(part) ==
    IF \A k \in 1..Len(part) : part[k] # "=" THEN <<>>
    ELSE SubSeq(part, Min({ j \in 1..Len(part) : part[j] = "=" }) + 1, Len(part))

PercentDecoded(code) ==
    CASE code = <<"2", "6">> -> "&"
      [] code = <<"3", "D">> -> "="
      [] code = <<"2", "B">> -> "+"
      [] code = <<"2", "C">> -> ","
      [] code = <<"2", "5">> -> "%"
      [] code = <<"2", "F">> -> "/"
      [] code = <<"3", "A">> -> ":"
      [] OTHER -> "?"

RECURSIVE FormDecode(_)
FormDecode(s) ==
    IF s = <<>> THEN <<>>
    ELSE IF Head(s) = "+" THEN <<" ">> \o FormDecode(Tail(s))
    ELSE IF Head(s) = "%" /\ Len(s) >= 3
         THEN <<PercentDecoded(SubSeq(s, 2, 3))>> \o FormDecode(SubSeq(s, 4, Len(s)))
    ELSE <<Head(s)>> \o FormDecode(Tail(s))

SearchPrefix == <<"/", "s", "e", "a", "r", "c", "h", ".", "j", "s", "o", "n", "?">>

IsSearchUrl(url) == Len(url) >= Len(SearchPrefix) /\ SubSeq(url, 1, Len(SearchPrefix)) = SearchPrefix

\* the parameters of a search request, in order, as <<name, value>>
ParsedQuery(url) ==
    LET parts == SplitAt(SubSeq(url, Len(SearchPrefix) + 1, Len(url)), "&")
    IN  [k \in 1..Len(parts) |-> <<FormDecode(NameOf(parts[k])), FormDecode(ValueOf(parts[k]))>>]

NamesIn(parsed) == { parsed[k][1] : k \in 1..Len(parsed) }

ValuesOf(parsed, name) == { parsed[k][2] : k \in { j \in 1..Len(parsed) : parsed[j][1] = name } }

NameQ == <<"q">>

NameLimit == <<"l", "i", "m", "i", "t">>

NameOffset == <<"o", "f", "f", "s", "e", "t">>

NameFormat == <<"f", "o", "r", "m", "a", "t">>

FieldText(field) ==
    CASE field = "title"   -> <<"t", "i", "t", "l", "e">>
      [] field = "author"  -> <<"a", "u", "t", "h", "o", "r">>
      [] field = "isbn"    -> <<"i", "s", "b", "n">>
      [] field = "subject" -> <<"s", "u", "b", "j", "e", "c", "t">>
      [] field = "lang"    -> <<"l", "a", "n", "g">>
      [] field = "fields"  -> <<"f", "i", "e", "l", "d", "s">>

\* the optional scalar fields the caller gave a non-empty value
GivenFields(params) ==
    { f \in {"title", "author", "isbn", "subject", "lang", "fields"} :
        params[f] # None /\ params[f] # Some(<<>>) }

C9_LimitOffsetDefaultOrProvided ==
    \A i \in DOMAIN calls :
        calls[i].op = "searchBooks" =>
            LET parsed == ParsedQuery(UrlOf(i))
                params == calls[i].arg
            IN  /\ params.limit = None => ValuesOf(parsed, NameLimit) = {<<"1", "0">>}
                /\ params.offset = None => ValuesOf(parsed, NameOffset) = {<<"0">>}
                /\ (params.limit # None /\ Val(params.limit) >= 0)
                       => ValuesOf(parsed, NameLimit) = {NumberToString(Val(params.limit))}
                /\ (params.offset # None /\ Val(params.offset) >= 0)
                       => ValuesOf(parsed, NameOffset) = {NumberToString(Val(params.offset))}

----------------------------------------------------------------------------
(* Properties of the transport's outcomes *)

NetworkError == "Network Error"

\* C11: when the request was sent and no response came back, the call rejects
\* with an error of the network-error kind that has no status field
C11_NoResponseIsNetworkError ==
    [][\A i \in DOMAIN calls, o \in TransportOutcomes :
          (o.kind = "noResponse" /\ Respond(i, o))
          => /\ calls'[i].state = "rejected"
             /\ Val(calls'[i].thrown).error = Some(NetworkError)
             /\ Val(calls'[i].thrown).status = None]_vars

C11_Witness ==
    \E i \in DOMAIN calls :
        /\ calls[i].state = "rejected"
        /\ ~NoRequest(i)
        /\ Val(calls[i].thrown).error = Some(NetworkError)
        /\ Val(calls[i].thrown).status = None

----------------------------------------------------------------------------
(* Properties of construction *)

\* what the caller supplied for the headers: the content of their object
SuppliedHeaders ==
    IF IsSome(callerConfig.headers) THEN Some(heap[Val(callerConfig.headers)]) ELSE None

\* C12: getConfig() reports, for baseURL, timeout and headers, the caller's
\* value whenever one was supplied and the default only when it is missing, and
\* the transport has the baseURL and timeout that getConfig() reports
C12_SuppliedValueOrDefault ==
    IsSome(returned) =>
        /\ Val(returned).baseURL =
              (IF IsSome(callerConfig.baseURL) THEN Val(callerConfig.baseURL) ELSE DefaultBaseURL)
        /\ Val(returned).timeout =
              (IF IsSome(callerConfig.timeout) THEN Val(callerConfig.timeout) ELSE DefaultTimeout)
        /\ heap[Val(returned).headers] =
              (IF IsSome(SuppliedHeaders) THEN Val(SuppliedHeaders) ELSE NoHeaders)
        /\ httpClient.baseURL = Val(returned).baseURL
        /\ httpClient.timeout = Val(returned).timeout

\* the header h as the caller supplied it, if they did
SuppliedHeader(h) == IF IsSome(SuppliedHeaders) THEN Val(SuppliedHeaders)[h] ELSE None

\* C13: the transport's headers are the two defaults merged with the caller's
\* headers: the caller's value wins where the names collide, and a default the
\* caller did not name is kept
C13_CallerHeadersOverDefaults ==
    \A h \in HeaderNames :
        httpClient.headers[h] =
            (IF IsSome(SuppliedHeader(h)) THEN SuppliedHeader(h) ELSE DefaultHeaders[h])

C13_Witness ==
    /\ IsSome(SuppliedHeader("User-Agent"))
    /\ SuppliedHeader("User-Agent") # DefaultHeaders["User-Agent"]
    /\ httpClient.headers["User-Agent"] = SuppliedHeader("User-Agent")
    /\ httpClient.headers["Content-Type"] = Some("application/json")

----------------------------------------------------------------------------
(* Properties of every operation that does I/O *)

\* the transport fulfils: a response came back and its status is 2xx
IsSuccess(o) == o.kind = "response" /\ Val(o.response).status \in 200..299

\* C14: no retries: a call issues at most one GET, and the step that follows
\* the GET settles the call, fulfilled or rejected, without another request
\* being issued
C14_NoRetry ==
    [][/\ \A i \in DOMAIN calls' :
              Cardinality({ k \in DOMAIN requests' : requests'[k].call = i }) <= 1
       /\ \A i \in DOMAIN calls :
              (calls[i].state = "pending" /\ calls' # calls)
              => /\ calls'[i].state \in {"fulfilled", "rejected"}
                 /\ requests' = requests]_vars

C14_Witness ==
    \E i \in DOMAIN calls :
        /\ calls[i].state = "rejected"
        /\ Cardinality(RequestsOf(i)) = 1

\* C15: when the GET succeeds, the result's data, status and statusText are
\* exactly the response's body, status and status text
C15_ResultMirrorsResponse ==
    [][\A i \in DOMAIN calls, o \in TransportOutcomes :
          (IsSuccess(o) /\ Respond(i, o))
          => /\ calls'[i].state = "fulfilled"
             /\ IsSome(calls'[i].result)
             /\ Val(calls'[i].result).data = Val(o.response).data
             /\ Val(calls'[i].result).status = Val(o.response).status
             /\ Val(calls'[i].result).statusText = Val(o.response).statusText
             /\ DOMAIN Val(calls'[i].result) = {"data", "status", "statusText"}]_vars

C15_Witness ==
    \E i \in DOMAIN calls :
        /\ calls[i].state = "fulfilled"
        /\ Val(calls[i].result).status = 201
        /\ Val(calls[i].result).statusText = StatusText(201)
        /\ IsSome(Val(calls[i].result).data)

----------------------------------------------------------------------------
(* Properties of the search filters added in 0.1.1 *)

\* the query of a search request as the server reads it, in one piece
DecodedQuery(url) == FormDecode(SubSeq(url, Len(SearchPrefix) + 1, Len(url)))

YearFilters == {"first_publish_year", "publish_year"}

\* C16: a year filter the caller supplies (a single year, or a range with its
\* start and end) is never dropped: the request names the year or the years
C16_YearFilterInRequest ==
    \A i \in DOMAIN calls :
        (calls[i].op = "searchBooks" /\ ~NoRequest(i)) =>
            \A f \in YearFilters :
                IsSome(calls[i].arg[f]) =>
                    /\ Contains(DecodedQuery(UrlOf(i)), NumberToString(Val(calls[i].arg[f]).start))
                    /\ Contains(DecodedQuery(UrlOf(i)), NumberToString(Val(calls[i].arg[f]).end))

NameSort == <<"s", "o", "r", "t">>

SortText(sort) ==
    CASE sort = "new"       -> <<"n", "e", "w">>
      [] sort = "relevance" -> <<"r", "e", "l", "e", "v", "a", "n", "c", "e">>

\* C17: a sort option the caller supplies is passed through as sort=<value>
C17_SortInRequest ==
    \A i \in DOMAIN calls :
        (calls[i].op = "searchBooks" /\ ~NoRequest(i) /\ IsSome(calls[i].arg.sort)) =>
            ValuesOf(ParsedQuery(UrlOf(i)), NameSort) = {SortText(Val(calls[i].arg.sort))}

----------------------------------------------------------------------------
(* getEdition against getWork *)

\* key with its leading path prefix swapped for the other one, and key itself
\* when it begins with neither
SwapPrefix(key) ==
    IF StartsWith(key, WorksPrefix)
    THEN BooksPrefix \o SubSeq(key, Len(WorksPrefix) + 1, Len(key))
    ELSE IF StartsWith(key, BooksPrefix)
    THEN WorksPrefix \o SubSeq(key, Len(BooksPrefix) + 1, Len(key))
    ELSE key

\* the <id> of the request /works/<id>.json
IdOf(url) == SubSeq(url, Len(WorksPrefix) + 1, Len(url) - Len(JsonSuffix))

\* C18: for every key k, getEdition on k with the prefix swapped is accepted
\* exactly when getWork on k is accepted, and then requests /books/<id>.json
\* for the <id> that getWork requests as /works/<id>.json
C18_EditionMirrorsWork ==
    \A i \in DOMAIN calls :
        calls[i].op = "getWork" =>
            LET e == getEditionStep(SwapPrefix(calls[i].arg))
            IN  /\ NoRequest(i) <=> IsSome(e.thrown)
                /\ ~NoRequest(i) =>
                      /\ StartsWith(UrlOf(i), WorksPrefix)
                      /\ e.url = Some(BooksPrefix \o IdOf(UrlOf(i)) \o JsonSuffix)

----------------------------------------------------------------------------
(* Properties of the cover URLs *)

\* "https://covers.openlibrary.org/b/"
CoversSite ==
    <<"h", "t", "t", "p", "s", ":", "/", "/", "c", "o", "v", "e", "r", "s",
      ".", "o", "p", "e", "n", "l", "i", "b", "r", "a", "r", "y", ".", "o",
      "r", "g", "/", "b", "/">>

\* the number a string of decimal digits writes
RECURSIVE DecimalValue(_)
DecimalValue(s) ==
    IF s = <<>> THEN 0
    ELSE 10 * DecimalValue(SubSeq(s, 1, Len(s) - 1))
         + (CHOOSE d \in 0..9 : DecimalDigits[d + 1] = s[Len(s)])

\* s writes the natural number n in decimal, without leading zeros
WritesNatural(s, n) ==
    /\ s # <<>>
    /\ \A k \in 1..Len(s) : s[k] \in Digits
    /\ Len(s) > 1 => s[1] # "0"
    /\ DecimalValue(s) = n

\* s writes the integer n in decimal
WritesInteger(s, n) ==
    IF n < 0
    THEN s # <<>> /\ s[1] = "-" /\ WritesNatural(Tail(s), 0 - n)
    ELSE WritesNatural(s, n)

\* the size a call asked for: M when it named none
AskedSize(call) == IF call.size = None THEN "M" ELSE Val(call.size)

\* url is start, then some text, then "-<size>.jpg"; the text in between
Between(url, start, size) ==
    SubSeq(url, Len(start) + 1, Len(url) - Len(<<"-", size>> \o JpgSuffix))

HasShape(url, start, size) ==
    /\ Len(url) >= Len(start) + 2 + Len(JpgSuffix)
    /\ url = start \o Between(url, start, size) \o <<"-", size, ".", "j", "p", "g">>

\* C19: getCoverUrl(coverId, size) returns exactly
\* https://covers.openlibrary.org/b/id/<coverId>-<size>.jpg for every integer
\* coverId, of either sign and any magnitude, and every size, M when omitted
C19_CoverUrlById ==
    (IsSome(coverUrl) /\ Val(coverUrl).op = "getCoverUrl") =>
        LET call  == Val(coverUrl)
            start == CoversSite \o <<"i", "d", "/">>
        IN  /\ AskedSize(call) \in {"S", "M", "L"}
            /\ HasShape(call.url, start, AskedSize(call))
            /\ WritesInteger(Between(call.url, start, AskedSize(call)), call.coverId)

C19_Witness ==
    /\ IsSome(coverUrl)
    /\ Val(coverUrl).op = "getCoverUrl"
    /\ Val(coverUrl).coverId < 0
    /\ Val(coverUrl).size = None
    /\ Val(coverUrl).url = CoversSite \o <<"i", "d", "/", "-", "3", "-", "M">> \o JpgSuffix

\* C20: getCoverUrlByISBN(isbn, size) returns exactly
\* https://covers.openlibrary.org/b/isbn/<cleaned>-<size>.jpg, cleaned being
\* isbn without its hyphens and whitespace, for every input string, those
\* that are not 10 or 13 digits included, and every size, M when omitted
C20_CoverUrlByIsbn ==
    (IsSome(coverUrl) /\ Val(coverUrl).op = "getCoverUrlByISBN") =>
        LET call == Val(coverUrl)
        IN  /\ AskedSize(call) \in {"S", "M", "L"}
            /\ call.url = CoversSite \o <<"i", "s", "b", "n", "/">>
                              \o WithoutHyphensAndSpace(call.isbn)
                              \o <<"-", AskedSize(call), ".", "j", "p", "g">>

C20_Witness ==
    /\ IsSome(coverUrl)
    /\ Val(coverUrl).op = "getCoverUrlByISBN"
    /\ Contains(Val(coverUrl).isbn, <<"-">>)
    /\ ~TenOrThirteenDigits(WithoutHyphensAndSpace(Val(coverUrl).isbn))
    /\ Val(coverUrl).size = Some("L")
    /\ Val(coverUrl).url = CoversSite \o <<"i", "s", "b", "n", "/">>
                               \o WithoutHyphensAndSpace(Val(coverUrl).isbn)
                               \o <<"-", "L", ".", "j", "p", "g">>

----------------------------------------------------------------------------
(* Properties of a client used without awaiting *)

\* a step in which an accessor or a cover URL function returned something new
ReturnsValue == returned' # returned \/ baseURLSeen' # baseURLSeen \/ coverUrl' # coverUrl

\* C21: getCoverUrl, getCoverUrlByISBN, getConfig and getBaseURL never fail
\* and never issue an HTTP request, whatever the input and the client's state:
\* the step returns a value and leaves the calls and the requests as they were
C21_PureNeverFailNorFetch ==
    [][ReturnsValue =>
          /\ requests' = requests
          /\ calls' = calls
          /\ returned' # returned => IsSome(returned')
          /\ baseURLSeen' # baseURLSeen => IsSome(baseURLSeen')
          /\ coverUrl' # coverUrl => (IsSome(coverUrl') /\ Val(coverUrl').url # <<>>)]_vars

C21_Witness ==
    /\ \E i \in DOMAIN calls : calls[i].state = "pending"
    /\ Len(requests) = 1
    /\ IsSome(returned)
    /\ IsSome(baseURLSeen)
    /\ IsSome(coverUrl)
    /\ Val(coverUrl).op = "getCoverUrlByISBN"
    /\ Val(coverUrl).isbn = <<"1", "2", "3">>

\* what call i has become is what outcome o of its own request makes of it
SettledBy(call, o) ==
    IF IsSuccess(o)
    THEN /\ call.state = "fulfilled"
         /\ Val(call.result).status = Val(o.response).status
         /\ Val(call.result).data = Val(o.response).data
    ELSE /\ call.state = "rejected"
         /\ Val(call.thrown).status =
               (IF o.kind = "response" THEN Some(Val(o.response).status) ELSE None)

\* C22: with several calls in flight, in whatever order the responses arrive,
\* every call settles, a response settles the call of its own request and no
\* other call, a call that has settled stays as it is, and no step of a call
\* changes the configuration or the transport's headers
C22_CallsIndependent ==
    /\ [][/\ \A i \in DOMAIN calls, o \in SessionOutcomes :
                Respond(i, o) =>
                    /\ SettledBy(calls'[i], o)
                    /\ \A j \in DOMAIN calls \ {i} : calls'[j] = calls[j]
          /\ \A j \in DOMAIN calls \cap DOMAIN calls' :
                calls[j].state # "pending" => calls'[j] = calls[j]
          /\ (calls' # calls \/ requests' # requests) =>
                /\ config' = config
                /\ httpClient' = httpClient
                /\ heap' = heap]_vars
    /\ \A i \in 1..MaxInFlight :
          (i \in DOMAIN calls /\ calls[i].state = "pending")
          ~> (i \notin DOMAIN calls \/ calls[i].state # "pending")

\* two calls were in flight and the second one's response came first
C22_Witness ==
    /\ Len(calls) = 2
    /\ calls[1].state = "pending"
    /\ calls[2].state = "rejected"
    /\ ~NoRequest(2)
    /\ Val(calls[2].thrown).status = Some(404)

----------------------------------------------------------------------------
(* Properties of error normalization *)

RequestError == "Request Error"

\* C23: a failure gets one kind, by precedence: with a response it is an HTTP
\* error with the status set, even though the request is there too; without
\* a response but with a request it is a network error; otherwise it is a
\* request error with the original message; the last two have no status
C23_ErrorKindPrecedence ==
    [][\A i \in DOMAIN calls, o \in TransportOutcomes :
          (~IsSuccess(o) /\ Respond(i, o)) =>
              LET e == Val(calls'[i].thrown)
              IN  /\ o.kind = "response" =>
                        /\ TransportError(o).request
                        /\ e.status = Some(Val(o.response).status)
                  /\ o.kind = "noResponse" =>
                        /\ e.error = Some(NetworkError)
                        /\ e.status = None
                  /\ o.kind = "notSent" =>
                        /\ e.error = Some(RequestError)
                        /\ e.message = TransportError(o).message
                        /\ e.status = None]_vars

C23_Witness ==
    \E i \in DOMAIN calls :
        /\ calls[i].state = "rejected"
        /\ ~NoRequest(i)
        /\ Val(calls[i].thrown).error = Some(RequestError)
        /\ Val(calls[i].thrown).message = Some("Invalid URL")
        /\ Val(calls[i].thrown).status = None

ApiErrorText == "API Error"

\* the body of an error response, and what it provides
BodyOf(o) == Val(o.response).data

BodyError(o) == IF BodyOf(o) = None THEN None ELSE Val(BodyOf(o)).error

BodyMessage(o) == IF BodyOf(o) = None THEN None ELSE Val(BodyOf(o)).message

IsHttpError(o) == o.kind = "response" /\ ~(Val(o.response).status \in 200..299)

\* C26 as stated: the kind is the body's error code when the body provides a
\* non-empty one and "API Error" otherwise; the message is the body's message
\* when the body provides one and the transport error's message otherwise
C26_MessageWhenProvided ==
    [][\A i \in DOMAIN calls, o \in TransportOutcomes :
          (IsHttpError(o) /\ Respond(i, o)) =>
              LET e == Val(calls'[i].thrown)
              IN  /\ e.error =
                        (IF BodyError(o) \notin {None, Some("")}
                         THEN BodyError(o) ELSE Some(ApiErrorText))
                  /\ e.message =
                        (IF BodyMessage(o) # None
                         THEN BodyMessage(o) ELSE TransportError(o).message)]_vars

\* C26: the kind is the body's error code when the body provides a non-empty
\* one and "API Error" otherwise; the message is the body's message when the
\* body provides a non-empty one and the transport error's message otherwise
C26_NonEmptyOrFallback ==
    [][\A i \in DOMAIN calls, o \in TransportOutcomes :
          (IsHttpError(o) /\ Respond(i, o)) =>
              LET e == Val(calls'[i].thrown)
              IN  /\ e.error =
                        (IF BodyError(o) \notin {None, Some("")}
                         THEN BodyError(o) ELSE Some(ApiErrorText))
                  /\ e.message =
                        (IF BodyMessage(o) \notin {None, Some("")}
                         THEN BodyMessage(o) ELSE TransportError(o).message)]_vars

\* an error response whose body had an error code and no message to keep
C26_Witness ==
    \E i \in DOMAIN calls :
        /\ calls[i].state = "rejected"
        /\ Val(calls[i].thrown).status = Some(500)
        /\ Val(calls[i].thrown).error = Some("notfound")
        /\ Val(calls[i].thrown).message = Some("Request failed with status code")

----------------------------------------------------------------------------
(* Properties of key normalization *)

\* key without prefix when it begins with it, then without one leading "/"
LeadingRemoved(key, prefix) ==
    LET rest == IF StartsWith(key, prefix)
                THEN SubSeq(key, Len(prefix) + 1, Len(key))
                ELSE key
    IN  IF rest # <<>> /\ rest[1] = "/" THEN Tail(rest) ELSE rest

PrefixOf(op) == IF op = "getWork" THEN WorksPrefix ELSE BooksPrefix

\* C24: getWork and getEdition strip the path prefix only at the start of the
\* key, then at most one leading "/": the identifier in the request of an
\* accepted key is the input with only that much removed, the prefix text in
\* the middle of a key being left in place
C24_PrefixStrippedAtStartOnly ==
    \A i \in DOMAIN calls :
        (calls[i].op \in {"getWork", "getEdition"} /\ ~NoRequest(i)) =>
            UrlOf(i) = PrefixOf(calls[i].op)
                           \o LeadingRemoved(calls[i].arg, PrefixOf(calls[i].op))
                           \o JsonSuffix

----------------------------------------------------------------------------
(* The requests the client issues *)

EndsWith(s, tail) == Len(s) >= Len(tail) /\ SubSeq(s, Len(s) - Len(tail) + 1, Len(s)) = tail

\* url is start<text>.json; the text
Inner(url, start) == SubSeq(url, Len(start) + 1, Len(url) - Len(JsonSuffix))

IsJsonPath(url, start) ==
    /\ Len(url) >= Len(start) + Len(JsonSuffix)
    /\ StartsWith(url, start)
    /\ EndsWith(url, <<".", "j", "s", "o", "n">>)

BeginsOL(id) == Len(id) >= 2 /\ id[1] = "O" /\ id[2] = "L"

IsSearchShape(url) ==
    /\ StartsWith(url, SearchPrefix)
    /\ EndsWith(url, <<"f", "o", "r", "m", "a", "t", "=", "j", "s", "o", "n">>)

IsWorkShape(url) ==
    IsJsonPath(url, <<"/", "w", "o", "r", "k", "s", "/">>)
    /\ BeginsOL(Inner(url, <<"/", "w", "o", "r", "k", "s", "/">>))

IsEditionShape(url) ==
    IsJsonPath(url, <<"/", "b", "o", "o", "k", "s", "/">>)
    /\ BeginsOL(Inner(url, <<"/", "b", "o", "o", "k", "s", "/">>))

IsIsbnShape(url) ==
    IsJsonPath(url, <<"/", "i", "s", "b", "n", "/">>)
    /\ TenOrThirteenDigits(Inner(url, <<"/", "i", "s", "b", "n", "/">>))

\* C25: every request the client has issued is a GET of one of four shapes:
\* /search.json?<query> ending with format=json, /works/<id>.json and
\* /books/<id>.json with <id> starting with "OL", /isbn/<n>.json with <n> of
\* exactly 10 or exactly 13 digits
C25_RequestShapes ==
    \A k \in DOMAIN requests :
        /\ requests[k].method = "GET"
        /\ \/ IsSearchShape(requests[k].url)
           \/ IsWorkShape(requests[k].url)
           \/ IsEditionShape(requests[k].url)
           \/ IsIsbnShape(requests[k].url)

\* a request for an ISBN that was written with hyphens
C25_Witness ==
    \E i \in DOMAIN calls :
        /\ calls[i].op = "getBookByISBN"
        /\ Contains(calls[i].arg, <<"-">>)
        /\ ~NoRequest(i)
        /\ IsIsbnShape(UrlOf(i))

----------------------------------------------------------------------------
(* The headers after construction *)

\* the headers requests are sent with are the defaults overridden by the
\* headers a getConfig() call made now reports
ReportedHeadersAreSent ==
    \A h \in HeaderNames :
        httpClient.headers[h] =
            (IF IsSome(GetConfigView.headers[h])
             THEN GetConfigView.headers[h] ELSE DefaultHeaders[h])

\* a write to the headers object the caller passed or to the one getConfig()
\* returned
HeadersMutation ==
    \E h \in HeaderNames, v \in HeaderWrites :
        MutateCallerHeaders(h, v) \/ MutateReturnedHeaders(h, v)

\* C27: the headers sent are fixed at construction: after the caller mutates
\* the headers object passed to the constructor or the one obtained from
\* getConfig(), requests carry the headers merged at construction and
\* getConfig().headers is still the caller-supplied part of them
C27_HeadersFixedAndReported ==
    [][HeadersMutation => (httpClient' = httpClient /\ ReportedHeadersAreSent')]_vars

----------------------------------------------------------------------------
(* The two ISBN operations together *)

CoverIsbnStart == CoversSite \o <<"i", "s", "b", "n", "/">>

IsCoverByIsbn == IsSome(coverUrl) /\ Val(coverUrl).op = "getCoverUrlByISBN"

\* the ISBN embedded in the URL getCoverUrlByISBN returned
IsbnInCover == Between(Val(coverUrl).url, CoverIsbnStart, AskedSize(Val(coverUrl)))

\* the ISBN in the path of the request of getBookByISBN call i
IsbnInPath(i) == Inner(UrlOf(i), <<"/", "i", "s", "b", "n", "/">>)

AcceptedIsbnCall(i) == calls[i].op = "getBookByISBN" /\ ~NoRequest(i)

\* C28: getBookByISBN and getCoverUrlByISBN clean an ISBN identically and the
\* cleaning is idempotent: for an input getBookByISBN accepts, the ISBN in the
\* cover URL for that input is the ISBN in the request path; an ISBN that is
\* already clean goes into both as it is, and cleaning what is in the URL or
\* in the path once more leaves it unchanged
C28_SameIdempotentCleaning ==
    /\ IsCoverByIsbn =>
           /\ HasShape(Val(coverUrl).url, CoverIsbnStart, AskedSize(Val(coverUrl)))
           /\ CleanCoverISBN(IsbnInCover) = IsbnInCover
           /\ CleanISBN(IsbnInCover) = IsbnInCover
           /\ WithoutHyphensAndSpace(Val(coverUrl).isbn) = Val(coverUrl).isbn
                  => IsbnInCover = Val(coverUrl).isbn
    /\ \A i \in DOMAIN calls :
           AcceptedIsbnCall(i) =>
               /\ CleanISBN(IsbnInPath(i)) = IsbnInPath(i)
               /\ CleanCoverISBN(IsbnInPath(i)) = IsbnInPath(i)
               /\ WithoutHyphensAndSpace(calls[i].arg) = calls[i].arg
                      => IsbnInPath(i) = calls[i].arg
               /\ (IsCoverByIsbn /\ Val(coverUrl).isbn = calls[i].arg)
                      => IsbnInCover = IsbnInPath(i)

\* both operations were given " 9780547928227<tab>" and both name 9780547928227
C28_Witness ==
    /\ IsCoverByIsbn
    /\ Val(coverUrl).isbn = <<" ">> \o SampleIsbn \o <<"\t">>
    /\ IsbnInCover = SampleIsbn
    /\ \E i \in DOMAIN calls :
           /\ AcceptedIsbnCall(i)
           /\ calls[i].arg = Val(coverUrl).isbn
           /\ IsbnInPath(i) = SampleIsbn

----------------------------------------------------------------------------
(* The configuration and what the operations build *)

\* what the operation does with its argument up to the await, which is
\* written without the configuration
StepOf(op, arg) ==
    CASE op = "getWork"       -> getWorkStep(arg)
      [] op = "getEdition"    -> getEditionStep(arg)
      [] op = "getBookByISBN" -> getBookByISBNStep(arg)
      [] OTHER                -> searchBooksStep(arg)

\* the cover URL function applied to the arguments of the call
CoverOf(call) ==
    IF call.op = "getCoverUrl"
    THEN getCoverUrl(call.coverId, call.size)
    ELSE getCoverUrlByISBN(call.isbn, call.size)

====
